---- MODULE Spec2Model ----
(***************************************************************************)
(* Model of run_pmd_analysis.py: the ruleset emitter, the analyzer         *)
(* invoker, the line counter and the report summarizer, composed by the    *)
(* entry point through files on disk.                                      *)
(*                                                                         *)
(* Text is modelled by token sequences.  A file path is the sequence of    *)
(* its code points.  A violation message is a sequence of tokens in which  *)
(* "P" stands for the literal phrase "cognitive complexity of ", "0".."9"  *)
(* are the decimal digits, " " is a whitespace character and "x" is any    *)
(* other character.  A source file's content is a sequence of "c" (a       *)
(* character that is no newline) and "nl" (a newline).                     *)
(***************************************************************************)
EXTENDS Integers, Sequences, FiniteSets, TLC

\* ------------------------------------------------------------------ bounds

\* Most file elements in one report.
MaxFiles == 2

\* Most calls of parse_and_summarize in the repeated-call specification.
MaxCalls == 2

\* Most changes the environment makes to the source files between calls.
MaxTouches == 1

\* ------------------------------------------------------------------ inputs

\* The code points used below: 46 is ".", 47 is "/", 66 is "B", 97 is "a".
\* "./a", "B" and "a": three distinct report keys; "./a" and "a" name the
\* same file on disk.  In code-point order "./a" < "B" < "a".
Paths == { <<46, 47, 97>>, <<66>>, <<97>> }

\* The violation elements a report may carry: a score of 3 embedded in
\* padded text, a score of 5, a score of 10 followed by a second phrase,
\* the phrase without a number, no text at all, and a violation of another
\* rule whose text embeds a score.
CC3 == [rule |-> "CognitiveComplexity", text |-> <<" ", "x", "P", "3", "x", " ">>]
CC5 == [rule |-> "CognitiveComplexity", text |-> <<"P", "5">>]
CC10 == [rule |-> "CognitiveComplexity", text |-> <<"P", "1", "0", "x", "P", "3">>]
CCNoNumber == [rule |-> "CognitiveComplexity", text |-> <<"x", "P", "x">>]
CCNoText == [rule |-> "CognitiveComplexity", text |-> <<>>]
Other3 == [rule |-> "ApexDoc", text |-> <<" ", "x", "P", "3", "x", " ">>]

\* The violation lists a file element may carry.
ViolationLists ==
  { <<>>, <<CC3>>, <<CC10>>, <<CCNoNumber>>, <<CCNoText>>, <<Other3>>,
    <<CC3, CC5, Other3>>, <<CC10, CC3>> }

FileElems == [name : Paths, violations : ViolationLists]

\* The sequences of at most k file elements taken from elems.
RECURSIVE FileSeqs(_, _)
FileSeqs(k, elems) ==
  IF k = 0 THEN { <<>> }
  ELSE { <<>> } \cup
       { <<e>> \o r : e \in elems, r \in FileSeqs(k - 1, elems) }

\* A report file: absent, not well-formed XML, or a document of file elements
\* in the report namespace, each with its name attribute, as the analyzer
\* writes them.
NoReport == [kind |-> "absent", files |-> <<>>]
MalformedReport == [kind |-> "malformed", files |-> <<>>]
XmlReport(fs) == [kind |-> "xml", files |-> fs]

Reports == { XmlReport(fs) : fs \in FileSeqs(MaxFiles, FileElems) }

\* The reports of the repeated-call specification: file elements without
\* violations or with the three violations scoring 8.
TwiceReports ==
  { XmlReport(fs) :
      fs \in FileSeqs(MaxFiles, [name : Paths,
                                 violations : { <<>>, <<CC3, CC5, Other3>> }]) }

\* A source file on disk: missing, present but not readable as a text file
\* (a directory, no permission), or a text file.
Missing == [kind |-> "missing", content |-> <<>>]
Unreadable == [kind |-> "unreadable", content |-> <<>>]
TextFile(c) == [kind |-> "file", content |-> c]

FileStates == { Missing, Unreadable, TextFile(<<"c", "nl", "c">>) }

\* ------------------------------------------------------- count_lines_in_file

\* posixpath.normpath's split of a path at "/": the components, empty ones
\* included, in order.
RECURSIVE SplitSlash(_, _)
SplitSlash(p, cur) ==
  IF p = <<>> THEN <<cur>>
  ELSE IF Head(p) = 47 THEN <<cur>> \o SplitSlash(Tail(p), <<>>)
       ELSE SplitSlash(Tail(p), Append(cur, Head(p)))

\* Leading slashes kept by normpath: none, one, or exactly two.
InitialSlashes(p) ==
  IF Len(p) >= 1 /\ p[1] = 47
  THEN IF Len(p) >= 2 /\ p[2] = 47 /\ ~(Len(p) >= 3 /\ p[3] = 47) THEN 2 ELSE 1
  ELSE 0

\* normpath's loop over the components: "" and "." are dropped, ".." pops
\* the previous component where there is one to pop.
RECURSIVE NormComps(_, _, _)
NormComps(comps, new, slashes) ==
  IF comps = <<>> THEN new
  ELSE LET comp == Head(comps)
           rest == Tail(comps)
       IN IF comp = <<>> \/ comp = <<46>> THEN NormComps(rest, new, slashes)
          ELSE IF comp # <<46, 46>>
                  \/ (slashes = 0 /\ new = <<>>)
                  \/ (new # <<>> /\ new[Len(new)] = <<46, 46>>)
               THEN NormComps(rest, Append(new, comp), slashes)
               ELSE IF new # <<>>
                    THEN NormComps(rest, SubSeq(new, 1, Len(new) - 1), slashes)
                    ELSE NormComps(rest, new, slashes)

RECURSIVE JoinSlash(_)
JoinSlash(comps) ==
  IF comps = <<>> THEN <<>>
  ELSE IF Len(comps) = 1 THEN comps[1]
       ELSE comps[1] \o <<47>> \o JoinSlash(Tail(comps))

\* os.path.normpath(filepath)
normpath(p) ==
  IF p = <<>> THEN <<46>>
  ELSE LET n == InitialSlashes(p)
           joined == JoinSlash(NormComps(SplitSlash(p, <<>>), <<>>, n))
           path == [i \in 1..n |-> 47] \o joined
       IN IF path = <<>> THEN <<46>> ELSE path

\* The files on disk the report's paths can name.
DiskPaths == { normpath(p) : p \in Paths }

\* sum(1 for _ in f): one line per newline, and one more for a last line
\* that no newline ends.
RECURSIVE CountNewlines(_)
CountNewlines(c) ==
  IF c = <<>> THEN 0
  ELSE (IF Head(c) = "nl" THEN 1 ELSE 0) + CountNewlines(Tail(c))

LineCount(c) ==
  CountNewlines(c) + (IF c # <<>> /\ c[Len(c)] # "nl" THEN 1 ELSE 0)

\* What the line-count column holds: a number or a sentinel text.
Counted(n) == [isCount |-> TRUE, n |-> n, text |-> ""]
Sentinel(t) == [isCount |-> FALSE, n |-> 0, text |-> t]

\* count_lines_in_file without the os.path.exists test: a missing file
\* ends in the except branch.
count_lines_in_file_NoExistsTest(d, filepath) ==
  LET normalized_path == normpath(filepath)
      f == d[normalized_path]
  IN IF f.kind = "file" THEN Counted(LineCount(f.content))
     ELSE Sentinel("Error Reading File")

\* count_lines_in_file(filepath) on the files of d.
count_lines_in_file(d, filepath) ==
  LET normalized_path == normpath(filepath)
      f == d[normalized_path]
  IN IF f.kind = "missing" THEN Sentinel("File Not Found")
     ELSE IF f.kind = "unreadable" THEN Sentinel("Error Reading File")
          ELSE Counted(LineCount(f.content))

\* ------------------------------------------------------- complexity_pattern

IsDigit(t) == t \in {"0", "1", "2", "3", "4", "5", "6", "7", "8", "9"}

DigitVal(t) ==
  CASE t = "0" -> 0 [] t = "1" -> 1 [] t = "2" -> 2 [] t = "3" -> 3
    [] t = "4" -> 4 [] t = "5" -> 5 [] t = "6" -> 6 [] t = "7" -> 7
    [] t = "8" -> 8 [] t = "9" -> 9

\* str.strip(): leading and trailing whitespace removed.
RECURSIVE LStrip(_)
LStrip(s) == IF s # <<>> /\ Head(s) = " " THEN LStrip(Tail(s)) ELSE s

RECURSIVE RStrip(_)
RStrip(s) ==
  IF s # <<>> /\ s[Len(s)] = " " THEN RStrip(SubSeq(s, 1, Len(s) - 1)) ELSE s

strip(s) == RStrip(LStrip(s))

\* (\d+) from position i: the longest run of digits.
RECURSIVE DigitRun(_, _)
DigitRun(s, i) ==
  IF i <= Len(s) /\ IsDigit(s[i]) THEN <<s[i]>> \o DigitRun(s, i + 1) ELSE <<>>

\* complexity_pattern.search(message): group 1 of the leftmost match of
\* "cognitive complexity of (\d+)", or <<>> when nothing matches.
RECURSIVE SearchFrom(_, _)
SearchFrom(s, i) ==
  IF i > Len(s) THEN <<>>
  ELSE IF s[i] = "P" /\ i + 1 <= Len(s) /\ IsDigit(s[i + 1])
       THEN DigitRun(s, i + 1)
       ELSE SearchFrom(s, i + 1)

complexity_pattern_search(message) == SearchFrom(message, 1)

\* int(match.group(1))
RECURSIVE int(_)
int(ds) ==
  IF ds = <<>> THEN 0
  ELSE 10 * int(SubSeq(ds, 1, Len(ds) - 1)) + DigitVal(ds[Len(ds)])

\* ------------------------------------------------------- parse_and_summarize

\* ViolationScore without the test of the rule identifier.
ViolationScore_AnyRule(violation) ==
  LET message == IF violation.text # <<>> THEN strip(violation.text) ELSE <<>>
      match == complexity_pattern_search(message)
  IN IF match # <<>> THEN int(match) ELSE 0

\* What one violation element adds to total_complexity: the body of the
\* loop over file_elem.findall('pmd:violation', ns).
ViolationScore(violation) ==
  IF violation.rule = "CognitiveComplexity"
  THEN LET message == IF violation.text # <<>> THEN strip(violation.text) ELSE <<>>
           match == complexity_pattern_search(message)
       IN IF match # <<>> THEN int(match) ELSE 0
  ELSE 0

\* total_complexity after the loop over the violations, from the running
\* total acc.
RECURSIVE total_complexity(_, _)
total_complexity(violations, acc) ==
  IF violations = <<>> THEN acc
  ELSE total_complexity(Tail(violations), acc + ViolationScore(Head(violations)))

\* DictSet that keeps the value a key already has (setdefault).
DictSet_KeepFirst(file_data, entry) ==
  IF \E i \in 1..Len(file_data) : file_data[i].key = entry.key
  THEN file_data
  ELSE Append(file_data, entry)

\* file_data[filename] = {...}: a dictionary kept as the sequence of its
\* entries in insertion order; a key already present keeps its place and
\* takes the new value.
DictSet(file_data, entry) ==
  IF \E i \in 1..Len(file_data) : file_data[i].key = entry.key
  THEN [i \in 1..Len(file_data) |->
          IF file_data[i].key = entry.key THEN entry ELSE file_data[i]]
  ELSE Append(file_data, entry)

\* The loop over root.findall('pmd:file', ns).
RECURSIVE ScanFiles(_, _, _)
ScanFiles(files, d, file_data) ==
  IF files = <<>> THEN file_data
  ELSE LET file_elem == Head(files)
           filename == file_elem.name
           entry == [key |-> filename,
                     complexity |-> total_complexity(file_elem.violations, 0),
                     loc |-> count_lines_in_file(d, filename)]
       IN ScanFiles(Tail(files), d, DictSet(file_data, entry))

\* Python's order on strings: by code point, a proper prefix first.
RECURSIVE StrLess(_, _)
StrLess(a, b) ==
  IF b = <<>> THEN FALSE
  ELSE IF a = <<>> THEN TRUE
       ELSE IF Head(a) # Head(b) THEN Head(a) < Head(b)
            ELSE StrLess(Tail(a), Tail(b))

\* One key put into an ascending sequence, after the keys not greater.
RECURSIVE Insert(_, _)
Insert(keys, k) ==
  IF keys = <<>> THEN <<k>>
  ELSE IF StrLess(k, Head(keys)) THEN <<k>> \o keys
       ELSE <<Head(keys)>> \o Insert(Tail(keys), k)

\* sorted left out: the keys in insertion order.
sorted_InsertionOrder(keys) == keys

\* sorted(file_data.keys())
RECURSIVE sorted(_)
sorted(keys) ==
  IF keys = <<>> THEN <<>>
  ELSE Insert(sorted(SubSeq(keys, 1, Len(keys) - 1)), keys[Len(keys)])

DictKeys(file_data) == [i \in 1..Len(file_data) |-> file_data[i].key]

DictGet(file_data, k) ==
  LET i == CHOOSE j \in 1..Len(file_data) : file_data[j].key = k
  IN file_data[i]

\* The four lines written before the data rows.
Header ==
  << <<"Project Structure & Complexity Report">>,
     <<"=====================================">>,
     <<"File Path                                                    | Complexity   | Lines of Code">>,
     <<"-----------------------------------------------------------------------------------------------">> >>

\* One data row: the path, the complexity and the line count or sentinel,
\* each in its column.
Row(filename, data) == << filename, data.complexity, data.loc >>

\* RowsOf that writes no row for a file of complexity 0.
RowsOf_SkipZero(file_data) ==
  LET keys == sorted(DictKeys(SelectSeq(file_data, LAMBDA e : e.complexity > 0)))
  IN [i \in 1..Len(keys) |-> Row(keys[i], DictGet(file_data, keys[i]))]

\* The lines the loop over sorted(file_data.keys()) writes.
RowsOf(file_data) ==
  LET keys == sorted(DictKeys(file_data))
  IN [i \in 1..Len(keys) |-> Row(keys[i], DictGet(file_data, keys[i]))]

\* The summary file: absent, or its lines (a header line is <<text>>, a
\* data row is <<path, complexity, line count>>).
NoSummary == [exists |-> FALSE, lines |-> <<>>]

\* WriteSummary with the file opened in append mode.
WriteSummary_Append(old, file_data) ==
  [exists |-> TRUE, lines |-> old.lines \o Header \o RowsOf(file_data)]

\* open(output_file, "w") and the writes under it: the file is truncated
\* and holds the header and the rows, whatever old held.
WriteSummary(old, file_data) ==
  [exists |-> TRUE, lines |-> Header \o RowsOf(file_data)]

\* parse_and_summarize without the os.path.exists test of the report: an
\* absent report is summarized as an empty one.
parse_and_summarize_NoAbsenceTest(r, d, old) ==
  IF r.kind = "malformed"
  THEN [raised |-> TRUE, summary |-> old, printed |-> <<>>,
        looked |-> {}, wrote |-> FALSE]
  ELSE LET file_data == ScanFiles(r.files, d, <<>>)
       IN [raised |-> FALSE,
           summary |-> WriteSummary(old, file_data),
           printed |-> << <<"Summary generated at complexity-summary.txt">> >>,
           looked |-> { normpath(r.files[i].name) : i \in 1..Len(r.files) },
           wrote |-> TRUE]

\* parse_and_summarize with the parser's exception caught and reported.
parse_and_summarize_CatchesParseError(r, d, old) ==
  IF r.kind = "absent"
  THEN [raised |-> FALSE, summary |-> old,
        printed |-> << <<"Error: pmd-report.xml not found.">> >>,
        looked |-> {}, wrote |-> FALSE]
  ELSE IF r.kind = "malformed"
       THEN [raised |-> FALSE, summary |-> old,
             printed |-> << <<"Error: pmd-report.xml is malformed.">> >>,
             looked |-> {}, wrote |-> FALSE]
       ELSE LET file_data == ScanFiles(r.files, d, <<>>)
            IN [raised |-> FALSE,
                summary |-> WriteSummary(old, file_data),
                printed |-> << <<"Summary generated at complexity-summary.txt">> >>,
                looked |-> { normpath(r.files[i].name) : i \in 1..Len(r.files) },
                wrote |-> TRUE]

\* parse_and_summarize() on report file r, source files d and summary file
\* old: whether it raised, the summary file afterwards, what it printed,
\* the source files it looked at, and whether it reached the write.
parse_and_summarize(r, d, old) ==
  IF r.kind = "absent"
  THEN [raised |-> FALSE, summary |-> old,
        printed |-> << <<"Error: pmd-report.xml not found.">> >>,
        looked |-> {}, wrote |-> FALSE]
  ELSE IF r.kind = "malformed"
       THEN [raised |-> TRUE, summary |-> old, printed |-> <<>>,
             looked |-> {}, wrote |-> FALSE]
       ELSE LET file_data == ScanFiles(r.files, d, <<>>)
            IN [raised |-> FALSE,
                summary |-> WriteSummary(old, file_data),
                printed |-> << <<"Summary generated at complexity-summary.txt">> >>,
                looked |-> { normpath(r.files[i].name) : i \in 1..Len(r.files) },
                wrote |-> TRUE]

\* ------------------------------------------------------------------ state

VARIABLES
  pc,        \* where the process is: "start", "check_src", "parse", "done",
             \* "crashed" (an exception ended it), or "call" (a caller about
             \* to call parse_and_summarize directly)
  ruleset,   \* pmd-ruleset.xml: "absent", "stale" or "written"
  srcDir,    \* whether ./src exists
  report,    \* pmd-report.xml
  reportBy,  \* who wrote the report file: "nobody", "earlier" (before this
             \* run) or "run" (this run's analyzer)
  disk,      \* the source files the report's paths name
  summary,   \* complexity-summary.txt
  out,       \* standard output: the lines printed so far
  phases,    \* the phases this run has gone through, in order
  pmd,       \* the analyzer subprocess: whether it ran, and its return code
  looked,    \* the source files count_lines_in_file has looked at
  calls,     \* the calls of parse_and_summarize so far: for each, the
             \* report and files it ran on and the summary before and after
  touches    \* the changes the environment made to the files so far

vars ==
  << pc, ruleset, srcDir, report, reportBy, disk, summary, out, phases, pmd,
     looked, calls, touches >>

\* A summary left by an earlier run.
OldSummary ==
  [exists |-> TRUE, lines |-> Header \o << << <<66>>, 7, Counted(4) >> >>]

\* The report files an earlier run may have left.
StaleReports ==
  { NoReport, MalformedReport,
    XmlReport(<< [name |-> <<97>>, violations |-> <<CC10>>] >>) }

NotRun == [ran |-> FALSE, returncode |-> 0]

Init ==
  /\ pc = "start"
  /\ ruleset \in {"absent", "stale"}
  /\ srcDir \in BOOLEAN
  /\ report \in StaleReports
  /\ reportBy = IF report = NoReport THEN "nobody" ELSE "earlier"
  /\ disk \in [DiskPaths -> FileStates]
  /\ summary \in {NoSummary, OldSummary}
  /\ out = <<>>
  /\ phases = <<>>
  /\ pmd = NotRun
  /\ looked = {}
  /\ calls = <<>>
  /\ touches = 0

\* ------------------------------------------------------------------ steps

\* create_ruleset_file(): the fixed document is written over whatever the
\* path held.
create_ruleset_file ==
  /\ pc = "start"
  /\ ruleset' = "written"
  /\ out' = Append(out, <<"Created pmd-ruleset.xml">>)
  /\ phases' = Append(phases, "emit")
  /\ pc' = "check_src"
  /\ UNCHANGED << srcDir, report, reportBy, disk, summary, pmd, looked, calls,
                  touches >>

\* The entry point when ./src does not exist: a warning, and the analyzer
\* is not run.
warn_src_missing ==
  /\ pc = "check_src"
  /\ ~srcDir
  /\ out' = Append(out, <<"Warning: './src' directory not found. Please ensure it exists before running.">>)
  /\ pc' = "parse"
  /\ UNCHANGED << ruleset, srcDir, report, reportBy, disk, summary, phases, pmd,
                  looked, calls, touches >>

\* What the analyzer subprocess can do: end with status 0 and a report
\* without violations, end with status 4 and a report with violations, end
\* with an error status (1: the analyzer failed, 127: the shell found no
\* such command) and write nothing, or die of a signal (return code -9)
\* having written nothing or a truncated report.
HasViolations(r) == \E i \in 1..Len(r.files) : r.files[i].violations # <<>>

PmdOutcomes ==
  { [returncode |-> 0, writes |-> TRUE, report |-> r] :
      r \in { q \in Reports : ~HasViolations(q) } }
    \cup { [returncode |-> 4, writes |-> TRUE, report |-> r] :
             r \in { q \in Reports : HasViolations(q) } }
    \cup { [returncode |-> c, writes |-> FALSE, report |-> NoReport] :
             c \in {1, 127, -9} }
    \cup { [returncode |-> -9, writes |-> TRUE, report |-> MalformedReport] }

\* PmdMessage that takes only status 4 for violations.
PmdMessage_OnlyFour(c) ==
  IF c = 0 THEN <<"Analysis complete. Report generated at pmd-report.xml">>
  ELSE IF c = 4
       THEN <<"PMD finished with violations (Exit code ", c, "). Proceeding to parsing.">>
       ELSE <<"Error running PMD: ", c>>

\* What run_pmd_command prints after the subprocess ended with return code c.
PmdMessage(c) ==
  IF c = 0 THEN <<"Analysis complete. Report generated at pmd-report.xml">>
  ELSE IF c > 0
       THEN <<"PMD finished with violations (Exit code ", c, "). Proceeding to parsing.">>
       ELSE <<"Error running PMD: ", c>>

\* run_pmd_command(): the subprocess runs to its end, a message is printed
\* for its return code, and the function returns.
run_pmd_command ==
  /\ pc = "check_src"
  /\ srcDir
  /\ \E o \in PmdOutcomes :
       /\ pmd' = [ran |-> TRUE, returncode |-> o.returncode]
       /\ report' = IF o.writes THEN o.report ELSE report
       /\ reportBy' = IF o.writes THEN "run" ELSE reportBy
       /\ out' = out \o << <<"Executing PMD analysis on ./src...">>,
                           PmdMessage(o.returncode) >>
  /\ phases' = Append(phases, "invoke")
  /\ pc' = "parse"
  /\ UNCHANGED << ruleset, srcDir, disk, summary, looked, calls, touches >>

\* One call of parse_and_summarize(), after which the process is at
\* position next unless the call raised.
Summarize(next) ==
  \E res \in { parse_and_summarize(report, disk, summary) } :
     /\ summary' = res.summary
     /\ out' = out \o res.printed
     /\ looked' = looked \cup res.looked
     /\ phases' = phases \o (IF res.wrote THEN <<"parse", "write">> ELSE <<"parse">>)
     /\ calls' = Append(calls, [report |-> report, disk |-> disk,
                                 before |-> summary, after |-> res.summary,
                                 raised |-> res.raised, looked |-> res.looked,
                                 printed |-> res.printed])
     /\ pc' = IF res.raised THEN "crashed" ELSE next
     /\ UNCHANGED << ruleset, srcDir, report, reportBy, disk, pmd, touches >>

\* The entry point calling parse_and_summarize again after it returned.
main_parse_and_summarize_Again ==
  /\ pc \in {"parse", "done"}
  /\ Summarize("done")

\* The entry point's last step.
main_parse_and_summarize ==
  /\ pc = "parse"
  /\ Summarize("done")

Next ==
  \/ create_ruleset_file
  \/ warn_src_missing
  \/ run_pmd_command
  \/ main_parse_and_summarize

Spec == Init /\ [][Next]_vars

\* ------------------------------------------------------- repeated calls

\* A caller about to call parse_and_summarize() directly, on whatever
\* report, source files and summary the disk holds.
InitTwice ==
  /\ pc = "call"
  /\ ruleset = "absent"
  /\ srcDir = FALSE
  /\ report \in TwiceReports \cup {NoReport, MalformedReport}
  /\ reportBy = IF report = NoReport THEN "nobody" ELSE "earlier"
  /\ disk \in [DiskPaths -> FileStates]
  /\ summary \in {NoSummary, OldSummary}
  /\ out = <<>>
  /\ phases = <<>>
  /\ pmd = NotRun
  /\ looked = {}
  /\ calls = <<>>
  /\ touches = 0

\* The caller calls parse_and_summarize() once more.
call_parse_and_summarize ==
  /\ pc = "call"
  /\ Len(calls) < MaxCalls
  /\ Summarize("call")

\* Between two calls the environment changes one source file.
touch_source_file ==
  /\ pc = "call"
  /\ calls # <<>>
  /\ touches < MaxTouches
  /\ Len(calls) < MaxCalls
  /\ \E p \in DiskPaths, f \in FileStates :
       /\ f # disk[p]
       /\ disk' = [disk EXCEPT ![p] = f]
  /\ touches' = touches + 1
  /\ UNCHANGED << pc, ruleset, srcDir, report, reportBy, summary, out, phases,
                  pmd, looked, calls >>

NextTwice ==
  \/ call_parse_and_summarize
  \/ touch_source_file

SpecTwice == InitTwice /\ [][NextTwice]_vars

\* ------------------------------------------------------------------ claims

\* The latest call of parse_and_summarize, and whether it parsed a report
\* and wrote a summary.
LastCall == calls[Len(calls)]

Parsed == calls # <<>> /\ LastCall.report.kind = "xml" /\ ~LastCall.raised

\* The data rows of a summary: its lines after the header lines.
DataRows(s) == SubSeq(s.lines, Len(Header) + 1, Len(s.lines))

\* The score a message embeds: the decimal value of the digits that follow
\* the leftmost phrase "cognitive complexity of " a digit follows; 0 when
\* there is no such phrase.
PhraseStarts(t) == { i \in 1..Len(t) : t[i] = "P" /\ i < Len(t) /\ IsDigit(t[i + 1]) }

RECURSIVE Pow10(_)
Pow10(n) == IF n = 0 THEN 1 ELSE 10 * Pow10(n - 1)

RECURSIVE SumOver(_, _)
SumOver(f, S) ==
  IF S = {} THEN 0
  ELSE LET x == CHOOSE y \in S : TRUE IN f[x] + SumOver(f, S \ {x})

EmbeddedScore(t) ==
  IF PhraseStarts(t) = {} THEN 0
  ELSE LET i == 1 + CHOOSE m \in PhraseStarts(t) : \A n \in PhraseStarts(t) : m <= n
           j == CHOOSE e \in i..Len(t) :
                  /\ \A k \in i..e : IsDigit(t[k])
                  /\ (e = Len(t) \/ ~IsDigit(t[e + 1]))
       IN SumOver([k \in i..j |-> DigitVal(t[k]) * Pow10(j - k)], i..j)

\* What a violation is claimed to contribute, and the claimed total of one
\* file element.
Contribution(v) ==
  IF v.rule = "CognitiveComplexity" THEN EmbeddedScore(v.text) ELSE 0

ElemScore(e) ==
  SumOver([i \in 1..Len(e.violations) |-> Contribution(e.violations[i])],
          1..Len(e.violations))

\* The file elements of a report that carry path p, and the last of them.
ElemsOf(files, p) == { i \in 1..Len(files) : files[i].name = p }

LastElemOf(files, p) ==
  CHOOSE i \in ElemsOf(files, p) : \A j \in ElemsOf(files, p) : j <= i

NamesOf(files) == { files[i].name : i \in 1..Len(files) }

\* C1, as stated: after parse_and_summarize, the complexity of every row
\* is the sum of the embedded scores of all violations in the report that
\* belong to the row's path and carry the rule CognitiveComplexity.
C1_SumOfAllViolationsOfPath ==
  Parsed =>
    LET files == LastCall.report.files
        rows == DataRows(LastCall.after)
    IN \A k \in 1..Len(rows) :
         rows[k][2] =
           SumOver([i \in ElemsOf(files, rows[k][1]) |-> ElemScore(files[i])],
                   ElemsOf(files, rows[k][1]))

\* C1, amended: the complexity of every row is the sum of the embedded
\* scores of the CognitiveComplexity violations of the last file element
\* that carries the row's path; every other violation adds 0.
C1_SumOfLastElement ==
  Parsed =>
    LET files == LastCall.report.files
        rows == DataRows(LastCall.after)
    IN \A k \in 1..Len(rows) :
         /\ ElemsOf(files, rows[k][1]) # {}
         /\ rows[k][2] = ElemScore(files[LastElemOf(files, rows[k][1])])

\* A file with violations scoring 3 and 5 and a violation of another rule
\* has the row total 8.
C1_Witness ==
  /\ Parsed
  /\ \E i \in 1..Len(LastCall.report.files) :
       LastCall.report.files[i].violations = <<CC3, CC5, Other3>>
  /\ \E k \in 1..Len(DataRows(LastCall.after)) : DataRows(LastCall.after)[k][2] = 8

\* Path a comes before path b in code-point order.
Before(a, b) ==
  \E n \in 0..Len(a) :
    /\ n <= Len(b)
    /\ \A i \in 1..n : a[i] = b[i]
    /\ \/ n = Len(a) /\ n < Len(b)
       \/ n < Len(a) /\ n < Len(b) /\ a[n + 1] < b[n + 1]

\* C2: the data rows are in strictly ascending order of path, whatever the
\* order of the file elements.
C2_RowsStrictlyAscending ==
  Parsed =>
    LET rows == DataRows(LastCall.after)
    IN \A k \in 1..(Len(rows) - 1) : Before(rows[k][1], rows[k + 1][1])

\* A report whose two file elements are in descending order gave two rows.
C2_Witness ==
  /\ Parsed
  /\ Len(LastCall.report.files) = 2
  /\ Before(LastCall.report.files[2].name, LastCall.report.files[1].name)
  /\ Len(DataRows(LastCall.after)) = 2

\* C3: the summary is the four header lines followed by exactly one row
\* per path of the report, and the header lines alone for a report without
\* file elements.
C3_HeaderThenOneRowPerFile ==
  Parsed =>
    LET files == LastCall.report.files
        lines == LastCall.after.lines
        rows == DataRows(LastCall.after)
    IN /\ LastCall.after.exists
       /\ Len(lines) >= 4
       /\ SubSeq(lines, 1, 4) = Header
       /\ Len(rows) = Cardinality(NamesOf(files))
       /\ { rows[k][1] : k \in 1..Len(rows) } = NamesOf(files)
       /\ (files = <<>> => lines = Header)

\* Two file elements with different paths, one of them without
\* violations, gave two rows.
C3_Witness ==
  /\ Parsed
  /\ Len(LastCall.report.files) = 2
  /\ LastCall.report.files[1].name # LastCall.report.files[2].name
  /\ LastCall.report.files[1].violations = <<>>
  /\ LastCall.report.files[2].violations # <<>>
  /\ Len(LastCall.after.lines) = 6

\* The lines of a text: its newlines, and one more for an unended last line.
LinesOf(c) ==
  Cardinality({ i \in 1..Len(c) : c[i] = "nl" })
    + (IF c # <<>> /\ c[Len(c)] # "nl" THEN 1 ELSE 0)

\* What the line-count column is claimed to hold for path p on files d.
ExpectedLoc(d, p) ==
  LET f == d[normpath(p)]
  IN CASE f.kind = "missing" -> Sentinel("File Not Found")
       [] f.kind = "unreadable" -> Sentinel("Error Reading File")
       [] f.kind = "file" -> Counted(LinesOf(f.content))

\* C4: a path whose file is missing gets the sentinel "File Not Found", one
\* whose file cannot be read gets "Error Reading File"; the call does not
\* raise, every path of the report still has its row with its complexity,
\* and the rows of readable files hold their line counts.
C4_SentinelForUnreadableFile ==
  (calls # <<>> /\ LastCall.report.kind = "xml") =>
    LET files == LastCall.report.files
        rows == DataRows(LastCall.after)
    IN /\ ~LastCall.raised
       /\ pc # "crashed"
       /\ \A p \in NamesOf(files) :
            \E k \in 1..Len(rows) :
              /\ rows[k][1] = p
              /\ rows[k][2] = ElemScore(files[LastElemOf(files, p)])
              /\ rows[k][3] = ExpectedLoc(LastCall.disk, p)

\* A report naming a missing file and a readable one gave both rows.
C4_Witness ==
  /\ Parsed
  /\ \E k, m \in 1..Len(DataRows(LastCall.after)) :
       /\ DataRows(LastCall.after)[k][3] = Sentinel("File Not Found")
       /\ DataRows(LastCall.after)[k][2] > 0
       /\ DataRows(LastCall.after)[m][3] = Counted(2)

\* C5: when the report file does not exist, parse_and_summarize prints the
\* absence and returns: it does not raise, the summary file is what it was
\* before the call, and no source file is looked at.
C5_AbsentReportLeavesSummary ==
  (calls # <<>> /\ LastCall.report.kind = "absent") =>
    /\ ~LastCall.raised
    /\ pc # "crashed"
    /\ LastCall.printed = << <<"Error: pmd-report.xml not found.">> >>
    /\ LastCall.after = LastCall.before
    /\ summary = LastCall.before
    /\ LastCall.looked = {}

\* The run ended without a report and an earlier summary is still there.
C5_Witness ==
  /\ pc = "done"
  /\ LastCall.report.kind = "absent"
  /\ summary = OldSummary

\* C6, as stated: on a malformed report parse_and_summarize reports the
\* failure and returns early without raising, and writes no summary.
C6_MalformedReportReturns ==
  (calls # <<>> /\ LastCall.report.kind = "malformed") =>
    /\ ~LastCall.raised
    /\ pc # "crashed"
    /\ LastCall.after = LastCall.before

\* C6, amended: on a malformed report the parser's exception leaves
\* parse_and_summarize and ends the run; nothing is printed by the call
\* and no summary is written.
C6_MalformedReportRaises ==
  (calls # <<>> /\ LastCall.report.kind = "malformed") =>
    /\ LastCall.raised
    /\ pc = "crashed"
    /\ LastCall.printed = <<>>
    /\ LastCall.after = LastCall.before
    /\ summary = LastCall.before

\* The run crashed on a malformed report with an earlier summary in place.
C6_Witness ==
  /\ pc = "crashed"
  /\ LastCall.report.kind = "malformed"
  /\ summary = OldSummary

\* C7: after the analyzer ended with a status above zero run_pmd_command
\* has printed the finished-with-violations message with that status, and
\* after status 0 the completion message; in both cases nothing was raised
\* and the run is at, or past, parse_and_summarize.
C7_NonZeroExitContinues ==
  (pmd.ran /\ pmd.returncode >= 0) =>
    /\ Len(out) >= 3
    /\ out[2] = <<"Executing PMD analysis on ./src...">>
    /\ IF pmd.returncode > 0
       THEN /\ out[3][1] = "PMD finished with violations (Exit code "
            /\ out[3][2] = pmd.returncode
       ELSE out[3][1] = "Analysis complete. Report generated at pmd-report.xml"
    /\ \/ pc = "parse" /\ calls = <<>>
       \/ pc = "done" /\ Len(calls) = 1 /\ ~LastCall.raised
       \/ pc = "crashed" /\ Len(calls) = 1 /\ LastCall.raised

\* The shell found no analyzer (status 127) and the run went on to its end.
C7_Witness ==
  /\ pmd.ran
  /\ pmd.returncode = 127
  /\ pc = "done"

\* The place of a phase in the order emit, invoke, parse, write.
PhaseRank(ph) ==
  CASE ph = "emit" -> 1 [] ph = "invoke" -> 2 [] ph = "parse" -> 3
    [] ph = "write" -> 4

InOrderOnce(phs) ==
  \A i, j \in 1..Len(phs) : i < j => PhaseRank(phs[i]) < PhaseRank(phs[j])

\* C8, as stated: the phases of a run happen in the order emit, invoke,
\* parse, write, none of them twice, and a report that is parsed was
\* written by the analyzer invocation of the same run.
C8_LinearAndOwnReport ==
  /\ InOrderOnce(phases)
  /\ (calls # <<>> /\ LastCall.report.kind # "absent") => reportBy = "run"

\* C8, amended: the phases happen in that order, none twice; the invoke
\* phase is left out exactly when ./src is missing and the write phase
\* exactly when the report is absent or malformed; the report that is
\* parsed is the file at the report path, which this run's analyzer wrote
\* only if it was invoked and otherwise an earlier run left.
C8_LinearSinglePass ==
  /\ InOrderOnce(phases)
  /\ (pc # "start") => (phases # <<>> /\ phases[1] = "emit")
  /\ (pc \in {"parse", "done", "crashed"}) =>
       (srcDir <=> \E i \in 1..Len(phases) : phases[i] = "invoke")
  /\ (pc \in {"done", "crashed"}) =>
       /\ Len(calls) = 1
       /\ \E i \in 1..Len(phases) : phases[i] = "parse"
       /\ (LastCall.report.kind = "xml"
             <=> \E i \in 1..Len(phases) : phases[i] = "write")
       /\ LastCall.report = report
  /\ (reportBy = "run") => (\E i \in 1..Len(phases) : phases[i] = "invoke")
  /\ (pc \in {"start", "check_src", "parse"}) => calls = <<>>

\* ./src was missing, the analyzer was skipped, and a report left by an
\* earlier run was parsed and summarized.
C8_Witness ==
  /\ pc = "done"
  /\ phases = <<"emit", "parse", "write">>
  /\ reportBy = "earlier"

\* C9: two calls of parse_and_summarize on the same report and the same
\* source files leave the same summary file, and either both raise or
\* neither does.
C9_SameInputsSameSummary ==
  \A i, j \in 1..Len(calls) :
    (i < j /\ calls[i].report = calls[j].report /\ calls[i].disk = calls[j].disk)
      => /\ calls[j].after = calls[i].after
         /\ calls[j].raised = calls[i].raised

\* Two calls on the same report and files: the first replaced an earlier
\* summary, the second ran over the first's output.
C9_Witness ==
  /\ Len(calls) = 2
  /\ calls[1].report = calls[2].report
  /\ calls[1].disk = calls[2].disk
  /\ calls[1].report.kind = "xml"
  /\ Len(calls[1].report.files) = 2
  /\ calls[1].before = OldSummary
  /\ calls[2].before = calls[1].after
  /\ touches = 0

\* C10: a path carried by more than one file element has exactly one row,
\* and the row holds the complexity of the last of these elements and the
\* line count of the path's file.
C10_LastElementWins ==
  Parsed =>
    LET files == LastCall.report.files
        rows == DataRows(LastCall.after)
    IN \A p \in NamesOf(files) :
         Cardinality(ElemsOf(files, p)) > 1 =>
           /\ Cardinality({ k \in 1..Len(rows) : rows[k][1] = p }) = 1
           /\ \A k \in 1..Len(rows) :
                rows[k][1] = p =>
                  /\ rows[k][2] = ElemScore(files[LastElemOf(files, p)])
                  /\ rows[k][3] = ExpectedLoc(LastCall.disk, p)

\* The same path twice: the first element scores 10, the last has no
\* violations, and the one row says 0.
C10_Witness ==
  /\ Parsed
  /\ Len(LastCall.report.files) = 2
  /\ LastCall.report.files[1].name = LastCall.report.files[2].name
  /\ ElemScore(LastCall.report.files[1]) = 10
  /\ LastCall.report.files[2].violations = <<>>
  /\ DataRows(LastCall.after) =
       << << LastCall.report.files[1].name, 0,
             ExpectedLoc(LastCall.disk, LastCall.report.files[1].name) >> >>

====
